---------------------------- MODULE Spec2Model ----------------------------
(***************************************************************************)
(* Model of the command-security core of the JARVIS voice assistant        *)
(* (src/jarvis.py): SecurityManager (validate_command, sanitize_input),    *)
(* CommandProcessor.execute_command and the JARVIS.process_command /       *)
(* handle_system_command dispatch.                                         *)
(*                                                                         *)
(* A Python str is modelled as a sequence of one-character strings, so    *)
(* that substring tests, replace, strip, split and lower are computed      *)
(* character by character as the interpreter computes them.                *)
(***************************************************************************)
EXTENDS Integers, Sequences, FiniteSets, TLC

(***************************************************************************)
(* Bounds of the model.                                                    *)
(***************************************************************************)
\* number of fragments concatenated into an argument of a direct call
MaxFrags == 3
\* number of fragments concatenated into a spoken system command
MaxCmdFrags == 3
\* largest max_output_size a configuration is given in the model
MaxOutputSize == 2
\* number of fragments concatenated into a child's stdout
MaxStdoutFrags == 3

(***************************************************************************)
(* str primitives                                                          *)
(***************************************************************************)
\* the ASCII characters str.isspace() accepts that a TLA+ string can hold
Whitespace == {" ", "\t", "\n", "\r", "\f"}

UpperChars == <<"A","B","C","D","E","F","G","H","I","J","K","L","M",
                "N","O","P","Q","R","S","T","U","V","W","X","Y","Z">>
LowerChars == <<"a","b","c","d","e","f","g","h","i","j","k","l","m",
                "n","o","p","q","r","s","t","u","v","w","x","y","z">>

\* str.lower() on one character
LowerChar(c) ==
    IF \E i \in 1..Len(UpperChars) : UpperChars[i] = c
    THEN LowerChars[CHOOSE i \in 1..Len(UpperChars) : UpperChars[i] = c]
    ELSE c

\* str.lower()
Lower(s) == [i \in 1..Len(s) |-> LowerChar(s[i])]

\* s[a:] for 0 <= a
DropN(s, a) == SubSeq(s, a + 1, Len(s))

\* s[:n] for 0 <= n
TakeN(s, n) == SubSeq(s, 1, IF n < Len(s) THEN n ELSE Len(s))

\* str.lstrip()
RECURSIVE LStrip(_)
LStrip(s) ==
    IF s # <<>> /\ Head(s) \in Whitespace THEN LStrip(Tail(s)) ELSE s

\* str.rstrip()
RECURSIVE RStrip(_)
RStrip(s) ==
    IF s # <<>> /\ s[Len(s)] \in Whitespace
    THEN RStrip(SubSeq(s, 1, Len(s) - 1))
    ELSE s

\* str.strip()
Strip(s) == RStrip(LStrip(s))

\* s.startswith(p)
StartsWith(s, p) == Len(p) <= Len(s) /\ SubSeq(s, 1, Len(p)) = p

\* p in s
Contains(p, s) ==
    \E i \in 0..(Len(s) - Len(p)) : SubSeq(s, i + 1, i + Len(p)) = p

\* s.replace(old, "") : every non-overlapping occurrence, left to right
RECURSIVE Remove(_, _)
Remove(s, old) ==
    IF old = <<>> \/ Len(s) < Len(old) THEN s
    ELSE IF StartsWith(s, old) THEN Remove(DropN(s, Len(old)), old)
    ELSE <<Head(s)>> \o Remove(Tail(s), old)

\* the first token of LStrip-ped text: the characters up to the next whitespace
RECURSIVE TakeToken(_)
TakeToken(s) ==
    IF s = <<>> \/ Head(s) \in Whitespace THEN <<>>
    ELSE <<Head(s)>> \o TakeToken(Tail(s))

\* str.split() with no separator: the maximal runs of non-whitespace
RECURSIVE Split(_)
Split(s) ==
    LET t == LStrip(s) IN
    IF t = <<>> THEN <<>>
    ELSE <<TakeToken(t)>> \o Split(DropN(t, Len(TakeToken(t))))

(***************************************************************************)
(* JARVISConfig.load_security_config                                       *)
(***************************************************************************)
default_allowed_commands ==
    { <<"l","s">>, <<"p","w","d">>, <<"c","a","t">>, <<"h","e","a","d">>,
      <<"t","a","i","l">>, <<"g","r","e","p">>, <<"f","i","n","d">>, <<"w","c">>,
      <<"p","s">>, <<"t","o","p">>, <<"d","f">>, <<"f","r","e","e">>,
      <<"u","p","t","i","m","e">>, <<"u","n","a","m","e">>,
      <<"w","h","o","a","m","i">>,
      <<"p","i","n","g">>, <<"c","u","r","l">>, <<"w","g","e","t">>,
      <<"t","r","a","c","e","r","o","u","t","e">>,
      <<"g","i","t">>, <<"p","y","t","h","o","n","3">>, <<"p","i","p","3">>,
      <<"n","o","d","e">>, <<"n","p","m">> }

default_forbidden_patterns ==
    << <<"s","u","d","o">>, <<"s","u">>,
       <<"c","h","m","o","d"," ","7","7","7">>, <<"r","m"," ","-","r","f">>,
       <<"m","k","f","s">>, <<"f","d","i","s","k">>,
       <<"p","a","s","s","w","d">>, <<"u","s","e","r","a","d","d">>,
       <<"u","s","e","r","d","e","l">>,
       <<"s","y","s","t","e","m","c","t","l">>,
       <<"s","e","r","v","i","c","e">> >>

default_max_execution_time == 30

default_max_output_size == 10000

load_security_config ==
    [ allowed_commands   |-> default_allowed_commands,
      forbidden_patterns |-> default_forbidden_patterns,
      max_execution_time |-> default_max_execution_time,
      max_output_size    |-> default_max_output_size ]

\* the allow-set test_custom_allowed_commands writes into security_config
\* before it constructs the SecurityManager
custom_allowed_commands == { <<"e","c","h","o">>, <<"d","a","t","e">> }

\* The configurations a SecurityManager / CommandProcessor is constructed
\* with: the built-in one, the override of the test, and the built-in one
\* with max_output_size scaled down to 0..MaxOutputSize.
SecurityConfigs ==
    { load_security_config,
      [load_security_config EXCEPT !.allowed_commands = custom_allowed_commands] }
    \cup { [load_security_config EXCEPT !.max_output_size = n] :
             n \in 0..MaxOutputSize }

(***************************************************************************)
(* SecurityManager                                                         *)
(***************************************************************************)
\* the backquote character (the parser accepts no backquote inside a string,
\* so the character is written as this atom)
Backquote == "BQ"

\* a list that forgets the last character
dangerous_chars_without_gt == <<";", "&", "|", Backquote, "$", "(", ")", "<">>

dangerous_chars == <<";", "&", "|", Backquote, "$", "(", ")", "<", ">">>

\* the for loop of sanitize_input over chars[k..]
RECURSIVE RemoveChars(_, _, _)
RemoveChars(s, chars, k) ==
    IF k > Len(chars) THEN s
    ELSE RemoveChars(Remove(s, <<chars[k]>>), chars, k + 1)

\* " ".join(tokens)
RECURSIVE JoinTokens(_)
JoinTokens(toks) ==
    IF toks = <<>> THEN <<>>
    ELSE IF Len(toks) = 1 THEN toks[1]
    ELSE toks[1] \o <<" ">> \o JoinTokens(Tail(toks))

\* a sanitizer that trims before it deletes
sanitize_input_strip_first(user_input) ==
    RemoveChars(Strip(user_input), dangerous_chars, 1)

\* a sanitizer that also collapses the whitespace between words
sanitize_input_collapse(user_input) ==
    JoinTokens(Split(RemoveChars(user_input, dangerous_chars, 1)))

sanitize_input(user_input) ==
    Strip(RemoveChars(user_input, dangerous_chars, 1))

\* a validator that looks for the patterns in the base command only
validate_command_base_only(command, allowed, forbidden) ==
    LET c    == Lower(Strip(command))
        toks == Split(c)
        base_command == IF toks # <<>> THEN toks[1] ELSE <<>>
    IN  IF \E i \in 1..Len(forbidden) : Contains(forbidden[i], base_command)
        THEN FALSE
        ELSE base_command \in allowed

\* a validator that wants every token in the allow-set
validate_command_all_tokens(command, allowed, forbidden) ==
    LET c    == Lower(Strip(command))
        toks == Split(c)
    IN  IF \E i \in 1..Len(forbidden) : Contains(forbidden[i], c)
        THEN FALSE
        ELSE toks # <<>> /\ \A i \in 1..Len(toks) : toks[i] \in allowed

\* a validator that only looks for forbidden patterns
validate_command_forbidden_only(command, allowed, forbidden) ==
    LET c == Lower(Strip(command))
    IN  /\ Split(c) # <<>>
        /\ ~ \E i \in 1..Len(forbidden) : Contains(forbidden[i], c)

\* a validator that accepts a base command beginning with an allowed one
validate_command_prefix(command, allowed, forbidden) ==
    LET c    == Lower(Strip(command))
        toks == Split(c)
        base_command == IF toks # <<>> THEN toks[1] ELSE <<>>
    IN  IF \E i \in 1..Len(forbidden) : Contains(forbidden[i], c)
        THEN FALSE
        ELSE \E a \in allowed : StartsWith(base_command, a)

validate_command(command, allowed, forbidden) ==
    LET c    == Lower(Strip(command))
        toks == Split(c)
        base_command == IF toks # <<>> THEN toks[1] ELSE <<>>
    IN  IF \E i \in 1..Len(forbidden) : Contains(forbidden[i], c)
        THEN FALSE
        ELSE base_command \in allowed


(***************************************************************************)
(* CommandProcessor.execute_command: the pure parts                        *)
(***************************************************************************)
truncation_marker ==
    <<"\n",".",".","."," ","(","o","u","t","p","u","t"," ",
      "t","r","u","n","c","a","t","e","d",")">>

msg_not_allowed ==
    <<"C","o","m","m","a","n","d"," ","n","o","t"," ","a","l","l","o","w","e","d",
      " ","f","o","r"," ","s","e","c","u","r","i","t","y"," ",
      "r","e","a","s","o","n","s">>

msg_timed_out == <<"C","o","m","m","a","n","d"," ","t","i","m","e","d"," ","o","u","t">>

msg_not_found == <<"C","o","m","m","a","n","d"," ","n","o","t"," ","f","o","u","n","d">>

\* str(e) of an OSError other than FileNotFoundError
os_error_text ==
    <<"[","E","r","r","n","o"," ","1","3","]"," ",
      "P","e","r","m","i","s","s","i","o","n"," ","d","e","n","i","e","d">>

\* str(e) of an exception raised while the output is collected
decode_error_text ==
    <<"'","u","t","f","-","8","'"," ","c","o","d","e","c"," ",
      "c","a","n","'","t"," ","d","e","c","o","d","e">>

\* os.path.expanduser("~")
home_dir == <<"~">>

\* a limiter that already cuts at max_size characters
LimitOutput_ge(output, max_size) ==
    IF Len(output) >= max_size
    THEN TakeN(output, max_size) \o truncation_marker
    ELSE output

\* "Limit output size"
LimitOutput(output, max_size) ==
    IF Len(output) > max_size
    THEN TakeN(output, max_size) \o truncation_marker
    ELSE output

NoResult == [status |-> "none"]

\* the dict returned by the three except branches and by the rejection
ErrorResult(message) ==
    [status |-> "error", message |-> message, output |-> <<>>]

\* a result that calls every launched command a success
CompletedResult_launched(stdout, stderr, returncode, max_size) ==
    [status      |-> "success",
     output      |-> LimitOutput(Strip(stdout), max_size),
     error       |-> Strip(stderr),
     return_code |-> returncode]

\* the dict returned after the child has completed
CompletedResult(stdout, stderr, returncode, max_size) ==
    [status      |-> IF returncode = 0 THEN "success" ELSE "error",
     output      |-> LimitOutput(Strip(stdout), max_size),
     error       |-> Strip(stderr),
     return_code |-> returncode]

\* the child process: what it was launched with and, once it has completed,
\* what it wrote and returned
NoChild == [state |-> "none", argv |-> <<>>, cwd |-> <<>>,
            stdout |-> <<>>, stderr |-> <<>>, returncode |-> 0]

NoExec == [phase |-> "idle", raw |-> <<>>, sanitized |-> <<>>,
           validated |-> <<>>, verdict |-> FALSE, launch |-> "none"]

\* an executor without the last except branch: an exception of the launch
\* other than FileNotFoundError leaves execute_command as an exception
ExecOutcome_no_catch_all(command, c, ok, launch) ==
    IF ~ ok THEN
        [exec   |-> [phase |-> "returned", raw |-> command, sanitized |-> c,
                     validated |-> c, verdict |-> FALSE, launch |-> "none"],
         child  |-> NoChild,
         result |-> ErrorResult(msg_not_allowed)]
    ELSE IF launch = "started" THEN
        [exec   |-> [phase |-> "waiting", raw |-> command, sanitized |-> c,
                     validated |-> c, verdict |-> TRUE, launch |-> launch],
         child  |-> [state |-> "running", argv |-> Split(c), cwd |-> home_dir,
                     stdout |-> <<>>, stderr |-> <<>>, returncode |-> 0],
         result |-> NoResult]
    ELSE
        [exec   |-> [phase |-> "returned", raw |-> command, sanitized |-> c,
                     validated |-> c, verdict |-> TRUE, launch |-> launch],
         child  |-> NoChild,
         result |-> IF launch = "not_found" THEN ErrorResult(msg_not_found)
                    ELSE [status |-> "raised", message |-> os_error_text,
                          output |-> <<>>]]

\* an executor that starts the child and returns without waiting for it
ExecOutcome_no_wait(command, c, ok, launch) ==
    IF ~ ok THEN
        [exec   |-> [phase |-> "returned", raw |-> command, sanitized |-> c,
                     validated |-> c, verdict |-> FALSE, launch |-> "none"],
         child  |-> NoChild,
         result |-> ErrorResult(msg_not_allowed)]
    ELSE IF launch = "started" THEN
        [exec   |-> [phase |-> "returned", raw |-> command, sanitized |-> c,
                     validated |-> c, verdict |-> TRUE, launch |-> launch],
         child  |-> [state |-> "running", argv |-> Split(c), cwd |-> home_dir,
                     stdout |-> <<>>, stderr |-> <<>>, returncode |-> 0],
         result |-> CompletedResult(<<>>, <<>>, 0, default_max_output_size)]
    ELSE
        [exec   |-> [phase |-> "returned", raw |-> command, sanitized |-> c,
                     validated |-> c, verdict |-> TRUE, launch |-> launch],
         child  |-> NoChild,
         result |-> ErrorResult(IF launch = "not_found" THEN msg_not_found
                                ELSE os_error_text)]

\* an executor that launches the lower-case form it compared with the policy
ExecOutcome_lowercased(command, c, ok, launch) ==
    IF ~ ok THEN
        [exec   |-> [phase |-> "returned", raw |-> command, sanitized |-> c,
                     validated |-> c, verdict |-> FALSE, launch |-> "none"],
         child  |-> NoChild,
         result |-> ErrorResult(msg_not_allowed)]
    ELSE IF launch = "started" THEN
        [exec   |-> [phase |-> "waiting", raw |-> command, sanitized |-> c,
                     validated |-> c, verdict |-> TRUE, launch |-> launch],
         child  |-> [state |-> "running", argv |-> Split(Lower(c)),
                     cwd |-> home_dir,
                     stdout |-> <<>>, stderr |-> <<>>, returncode |-> 0],
         result |-> NoResult]
    ELSE
        [exec   |-> [phase |-> "returned", raw |-> command, sanitized |-> c,
                     validated |-> c, verdict |-> TRUE, launch |-> launch],
         child  |-> NoChild,
         result |-> ErrorResult(IF launch = "not_found" THEN msg_not_found
                                ELSE os_error_text)]

\* What execute_command has done when it first blocks or returns, given the
\* sanitized text c, the validator's verdict ok and what launching the
\* executable does on this system: "started" (the child runs), "not_found"
\* (no such executable: FileNotFoundError) or "os_error" (any other
\* exception of Popen).  The exec record keeps what the launch did, "none"
\* when there was no launch.
ExecOutcome(command, c, ok, launch) ==
    IF ~ ok THEN
        [exec   |-> [phase |-> "returned", raw |-> command, sanitized |-> c,
                     validated |-> c, verdict |-> FALSE, launch |-> "none"],
         child  |-> NoChild,
         result |-> ErrorResult(msg_not_allowed)]
    ELSE IF launch = "started" THEN
        [exec   |-> [phase |-> "waiting", raw |-> command, sanitized |-> c,
                     validated |-> c, verdict |-> TRUE, launch |-> launch],
         child  |-> [state |-> "running", argv |-> Split(c), cwd |-> home_dir,
                     stdout |-> <<>>, stderr |-> <<>>, returncode |-> 0],
         result |-> NoResult]
    ELSE
        [exec   |-> [phase |-> "returned", raw |-> command, sanitized |-> c,
                     validated |-> c, verdict |-> TRUE, launch |-> launch],
         child  |-> NoChild,
         result |-> ErrorResult(IF launch = "not_found" THEN msg_not_found
                                ELSE os_error_text)]

\* an executor that launches without asking the validator
execute_command_unvalidated(command, allowed, forbidden, launch) ==
    ExecOutcome(command, sanitize_input(command), TRUE, launch)

\* an executor that validates and launches the text as it was given
execute_command_unsanitized(command, allowed, forbidden, launch) ==
    ExecOutcome(command, command,
                validate_command(command, allowed, forbidden), launch)

\* execute_command up to the point where subprocess.run blocks or raises
execute_command(command, allowed, forbidden, launch) ==
    ExecOutcome(command, sanitize_input(command),
                validate_command(sanitize_input(command), allowed, forbidden),
                launch)

LaunchOutcomes == {"started", "not_found", "os_error"}

(***************************************************************************)
(* JARVIS.process_command: the pure parts                                  *)
(***************************************************************************)
default_wake_word == <<"j","a","r","v","i","s">>

exit_words ==
    << <<"g","o","o","d","b","y","e">>, <<"e","x","i","t">>, <<"q","u","i","t">>,
       <<"s","h","u","t","d","o","w","n">>,
       <<"p","o","w","e","r"," ","d","o","w","n">> >>

greeting_words ==
    << <<"h","e","l","l","o">>, <<"h","i">>,
       <<"g","o","o","d"," ","m","o","r","n","i","n","g">>,
       <<"g","o","o","d"," ","e","v","e","n","i","n","g">>,
       <<"h","o","w"," ","a","r","e"," ","y","o","u">> >>

time_word == <<"t","i","m","e">>

date_word == <<"d","a","t","e">>

system_info_phrases ==
    << <<"s","y","s","t","e","m"," ","s","t","a","t","u","s">>,
       <<"s","y","s","t","e","m"," ","i","n","f","o">>,
       <<"s","h","o","w"," ","s","t","a","t","s">> >>

system_command_prefixes ==
    << <<"r","u","n"," ">>, <<"e","x","e","c","u","t","e"," ">>,
       <<"c","o","m","m","a","n","d"," ">> >>

web_search_prefixes ==
    << <<"s","e","a","r","c","h"," ">>, <<"g","o","o","g","l","e"," ">>,
       <<"l","o","o","k"," ","u","p"," ">> >>

wikipedia_prefixes ==
    << <<"w","i","k","i"," ">>, <<"w","i","k","i","p","e","d","i","a"," ">> >>

tell_me_about == <<"t","e","l","l"," ","m","e"," ","a","b","o","u","t">>

\* the prefixes handle_wikipedia strips
wikipedia_topic_prefixes ==
    << <<"w","i","k","i"," ">>, <<"w","i","k","i","p","e","d","i","a"," ">>,
       <<"t","e","l","l"," ","m","e"," ","a","b","o","u","t"," ">> >>

help_words ==
    << <<"h","e","l","p">>,
       <<"w","h","a","t"," ","c","a","n"," ","y","o","u"," ","d","o">>,
       <<"c","o","m","m","a","n","d","s">> >>

msg_execution_failed ==
    <<"C","o","m","m","a","n","d"," ","e","x","e","c","u","t","i","o","n"," ",
      "f","a","i","l","e","d">>

\* any(word in command for word in words)
ContainsAny(words, command) ==
    \E k \in 1..Len(words) : Contains(words[k], command)

\* any(command.startswith(prefix) for prefix in prefixes)
StartsWithAny(prefixes, command) ==
    \E k \in 1..Len(prefixes) : StartsWith(command, prefixes[k])

\* the for/else loops of the handlers: the text after the first prefix of the
\* list that the command starts with, stripped; the command itself if none
AfterPrefix(prefixes, command) ==
    IF StartsWithAny(prefixes, command)
    THEN LET k == CHOOSE j \in 1..Len(prefixes) :
                     /\ StartsWith(command, prefixes[j])
                     /\ \A h \in 1..(j - 1) : ~ StartsWith(command, prefixes[h])
         IN  Strip(DropN(command, Len(prefixes[k])))
    ELSE command

\* a command body that is not trimmed after the wake word has been removed
CommandBody_untrimmed(command, wake) == Remove(command, wake)

\* command.replace(wake_word, "").strip()
CommandBody(command, wake) == Strip(Remove(command, wake))

\* a chain that tries the three prefix rules before the keyword rules
Classify_prefix_first(command) ==
    IF StartsWithAny(system_command_prefixes, command) THEN "system_command"
    ELSE IF StartsWithAny(web_search_prefixes, command) THEN "web_search"
    ELSE IF \/ StartsWithAny(wikipedia_prefixes, command)
            \/ Contains(tell_me_about, command) THEN "wikipedia"
    ELSE IF ContainsAny(exit_words, command) THEN "goodbye"
    ELSE IF ContainsAny(greeting_words, command) THEN "greeting"
    ELSE IF Contains(time_word, command) THEN "time"
    ELSE IF Contains(date_word, command) THEN "date"
    ELSE IF ContainsAny(system_info_phrases, command) THEN "system_info"
    ELSE IF ContainsAny(help_words, command) THEN "help"
    ELSE "unknown"

\* the if/elif chain of process_command: the handler it calls
Classify(command) ==
    IF ContainsAny(exit_words, command) THEN "goodbye"
    ELSE IF ContainsAny(greeting_words, command) THEN "greeting"
    ELSE IF Contains(time_word, command) THEN "time"
    ELSE IF Contains(date_word, command) THEN "date"
    ELSE IF ContainsAny(system_info_phrases, command) THEN "system_info"
    ELSE IF StartsWithAny(system_command_prefixes, command) THEN "system_command"
    ELSE IF StartsWithAny(web_search_prefixes, command) THEN "web_search"
    ELSE IF \/ StartsWithAny(wikipedia_prefixes, command)
            \/ Contains(tell_me_about, command) THEN "wikipedia"
    ELSE IF ContainsAny(help_words, command) THEN "help"
    ELSE "unknown"

greetings ==
    << "Hello, sir. How may I assist you today?",
       "Good to see you again, sir. All systems are at your disposal.",
       "Greetings. JARVIS reporting for duty.",
       "Hello, sir. What can I do for you today?" >>

\* the replies of handle_unknown_command
responses ==
    << "I'm not sure how to help with that request, sir. Try saying 'Jarvis help' for available commands.",
       "I don't understand that command. Say 'Jarvis help' to see what I can do.",
       "That command is not recognized. Please try rephrasing or ask for help.",
       "I'm afraid I don't have that capability yet. Say 'Jarvis help' for available commands." >>

goodbye_msg ==
    "Shutting down all systems. It has been a pleasure serving you today, sir. Goodbye."

\* a call of voice.speak: a text with one slot, and what fills the slot
Say(tpl, arg) == [tpl |-> tpl, arg |-> arg]

\* a call of ui.display_response / display_command_output / display_system_info
Show(tpl, arg, kind) == [tpl |-> tpl, arg |-> arg, kind |-> kind]

\* What a handler other than handle_system_command speaks, displays and
\* returns; n is random.choice's index, found whether the search has results.
HandlerOutcome(intent, command, n, found) ==
    CASE intent = "goodbye" ->
           [spoken |-> <<Say(goodbye_msg, <<>>)>>,
            displayed |-> <<Show(goodbye_msg, <<>>, "info")>>, ret |-> FALSE]
      [] intent = "greeting" ->
           [spoken |-> <<Say(greetings[n], <<>>)>>,
            displayed |-> <<Show(greetings[n], <<>>, "success")>>, ret |-> TRUE]
      [] intent = "time" ->
           [spoken |-> <<Say("The current time is {}.", <<>>)>>,
            displayed |-> <<Show("The current time is {}.", <<>>, "info")>>,
            ret |-> TRUE]
      [] intent = "date" ->
           [spoken |-> <<Say("Today is {}.", <<>>)>>,
            displayed |-> <<Show("Today is {}.", <<>>, "info")>>, ret |-> TRUE]
      [] intent = "system_info" ->
           [spoken |-> <<Say("System information displayed on screen.", <<>>)>>,
            displayed |-> <<Show("System Information", <<>>, "table")>>,
            ret |-> TRUE]
      [] intent = "web_search" ->
           LET query == AfterPrefix(web_search_prefixes, command) IN
           IF query = <<>> THEN
               [spoken |-> <<Say("What would you like me to search for?", <<>>)>>,
                displayed |-> <<>>, ret |-> TRUE]
           ELSE IF found THEN
               [spoken |-> <<Say("I found {} search results for {}.", query)>>,
                displayed |-> <<Show("Search results for '{}'", query, "info")>>,
                ret |-> TRUE]
           ELSE
               [spoken |-> <<Say("No search results found.", <<>>)>>,
                displayed |-> <<Show("No search results found.", <<>>, "warning")>>,
                ret |-> TRUE]
      [] intent = "wikipedia" ->
           LET topic == AfterPrefix(wikipedia_topic_prefixes, command) IN
           IF topic = <<>> THEN
               [spoken |-> <<Say("What topic would you like me to look up?", <<>>)>>,
                displayed |-> <<>>, ret |-> TRUE]
           ELSE
               [spoken |-> <<Say("Here's what I found about {}", topic)>>,
                displayed |-> <<Show("Wikipedia summary for '{}'", topic, "info")>>,
                ret |-> TRUE]
      [] intent = "help" ->
           [spoken |-> <<Say("I can help with system commands, web searches, Wikipedia lookups, and general assistance. Check the screen for a complete list.", <<>>)>>,
            displayed |-> <<Show("help_text", <<>>, "info")>>, ret |-> TRUE]
      [] OTHER ->
           [spoken |-> <<Say(responses[n], <<>>)>>,
            displayed |-> <<Show(responses[n], <<>>, "warning")>>, ret |-> TRUE]

\* a handler that ends the conversation when the command has failed
SystemCommandOutcome_stop(res, actual) ==
    IF res.status = "success"
    THEN [spoken |-> <<Say("Command executed successfully.", <<>>)>>,
          displayed |-> <<>>, ret |-> TRUE]
    ELSE [spoken |-> <<Say("Command failed: {}", <<>>)>>,
          displayed |-> <<>>, ret |-> FALSE]

\* What handle_system_command speaks, displays and returns once
\* execute_command has returned res for actual_command.
SystemCommandOutcome(res, actual) ==
    IF res.status = "success"
    THEN [spoken |-> <<Say("Command executed successfully.", <<>>)>>,
          displayed |-> IF res.output = <<>> THEN <<>>
                        ELSE <<Show("Command Output: {}", res.output, "output")>>,
          ret |-> TRUE]
    ELSE LET error_msg == IF "message" \in DOMAIN res THEN res.message
                          ELSE msg_execution_failed
         IN  [spoken |-> <<Say("Command failed: {}", error_msg)>>,
              displayed |-> <<Show("{}", error_msg, "error")>>,
              ret |-> TRUE]

(***************************************************************************)
(* State                                                                   *)
(***************************************************************************)
VARIABLES
    security_config,     \* JARVISConfig.security_config
    allowed_commands,    \* SecurityManager.allowed_commands
    forbidden_patterns,  \* SecurityManager.forbidden_patterns
    wake_word,           \* settings["general"]["wake_word"]
    text,                \* the string a direct caller of a method starts from
    call,                \* the last SecurityManager method called: op, arg, ret
    pc,                  \* where run() is; "direct" when run() is not used
    running,             \* JARVIS.running
    heard,               \* the command voice.listen() returned
    intent,              \* the handler process_command called for it
    actual_command,      \* handle_system_command's actual_command
    ret,                 \* what process_command returned for it
    spoken,              \* the voice.speak calls made for it
    displayed,           \* the ui.display_* calls made for it
    exec,                \* the execute_command call: phase, raw argument,
                         \* sanitized text, text validated, verdict
    child,               \* the child process of subprocess.run
    result,              \* the dict execute_command returned
    signal_received      \* signal_handler has logged "Shutdown signal received"

cfgVars == <<security_config, allowed_commands, forbidden_patterns, wake_word>>
unitVars == <<text, call>>
loopVars == <<pc, running, heard, intent, actual_command, ret, spoken, displayed>>
execVars == <<exec, child, result>>
vars == <<security_config, allowed_commands, forbidden_patterns, wake_word,
          text, call, pc, running, heard, intent, actual_command, ret,
          spoken, displayed, exec, child, result, signal_received>>

\* SecurityManager.__init__ copies the two lists out of the configuration
SecurityManager_init(config) ==
    /\ security_config = config
    /\ allowed_commands = config.allowed_commands
    /\ forbidden_patterns = config.forbidden_patterns

NoCall == [op |-> "none", arg |-> <<>>, ret |-> <<>>]

NoRet == [done |-> FALSE, value |-> TRUE]

\* the state of everything that belongs to the handling of one utterance
NoUtterance ==
    /\ heard = <<>>
    /\ intent = "none"
    /\ actual_command = <<>>
    /\ ret = NoRet
    /\ spoken = <<>>
    /\ displayed = <<>>
    /\ exec = NoExec
    /\ child = NoChild
    /\ result = NoResult

(***************************************************************************)
(* Inputs                                                                  *)
(***************************************************************************)
Frags ==
    { <<";">>, <<"&">>, <<">">>, <<" ">>, <<"\t">>,
      <<"l","s">>, <<"L","S">>, <<"s","u">>, <<"S","U">>, <<"x">>,
      <<"e","c","h","o">>, <<"&","&"," ","r","m">> }

\* the inputs of test_sanitize_input, test_block_forbidden_commands and
\* test_injection_attempts
TestInputs ==
    { <<"l","s",";"," ","r","m"," ","f","i","l","e">>,
      <<"l","s"," ","|"," ","g","r","e","p"," ","t","e","s","t">>,
      <<"e","c","h","o"," ",Backquote,"w","h","o","a","m","i",Backquote>>,
      <<"l","s"," ","$","H","O","M","E">>,
      <<"c","a","t"," ","/","e","t","c","/","p","a","s","s","w","d"," ",">"," ","f","i","l","e">>,
      <<"l","s"," ","$","(","s","u","d","o"," ","i","d",")">>,
      <<"l","s"," ",Backquote,"s","u","d","o"," ","w","h","o","a","m","i",Backquote>>,
      <<"l","s"," ","&","&"," ","s","u","d","o"," ","r","e","b","o","o","t">>,
      <<"l","s"," ",">"," ","/","e","t","c","/","p","a","s","s","w","d">>,
      <<"s","o","r","t"," ","<"," ","f","i","l","e">>,
      <<"s","u","d","o"," ","r","m"," ","-","r","f"," ","/">>,
      <<"c","h","m","o","d"," ","7","7","7"," ","/","e","t","c","/","p","a","s","s","w","d">>,
      <<"l","s"," ","-","l","a">>,
      <<"f","i","n","d"," ","."," ","-","n","a","m","e"," ","t","e","s","t">> }

\* each shell metacharacter before, inside and after a command
CharInputs ==
    { <<c>> \o <<"l","s">> \o <<c>> \o <<" ","x">> \o <<c>> :
        c \in {";", "&", "|", Backquote, "$", "(", ")", "<", ">"} }

\* the concatenations of at most n fragments of F
RECURSIVE Concats(_, _)
Concats(F, n) ==
    IF n = 0 THEN { <<>> }
    ELSE LET P == Concats(F, n - 1) IN P \cup { f \o p : f \in F, p \in P }

\* every command of the built-in allow-set, bare and with an argument
AllowSetInputs ==
    default_allowed_commands
    \cup { c \o <<" ","-","x"," ","/","t","m","p">> : c \in default_allowed_commands }

TextInputs ==
    Concats(Frags, MaxFrags) \cup AllowSetInputs \cup TestInputs \cup CharInputs

\* the fragments of a command given to execute_command or spoken after
\* "run ", "execute " or "command "
CmdFrags ==
    { <<"l","s">>, <<" ","-","l","a">>, <<"s","u","d","o"," ">>,
      <<"r","m"," ","-","r","f"," ","/">>, <<";">> }

\* the commands of the execute_command tests
ExecTestInputs ==
    { <<"e","c","h","o"," ","t","e","s","t">>, <<"s","l","e","e","p"," ","3","0">>,
      <<"L","S"," ","-","l","a">>, <<"L","s">>,
      <<"n","o","n","e","x","i","s","t","e","n","t","_",
        "c","o","m","m","a","n","d","_","1","2","3","4","5">>,
      <<"g","r","e","p">>, <<"c","a","t"," ","/","d","e","v","/","n","u","l","l">> }

ExecInputs == Concats(CmdFrags, MaxCmdFrags) \cup ExecTestInputs

\* what is said after (or without) the wake word
Phrases ==
    { <<"h","e","l","l","o">>, <<"g","o","o","d","b","y","e">>,
      <<"w","h","a","t"," ","t","i","m","e"," ","i","s"," ","i","t">>,
      <<"w","h","a","t"," ","i","s"," ","t","h","e"," ","d","a","t","e">>,
      <<"s","y","s","t","e","m"," ","s","t","a","t","u","s">>,
      <<"s","e","a","r","c","h"," ","c","a","t","s">>,
      <<"w","i","k","i"," ","c","a","t","s">>,
      <<"t","e","l","l"," ","m","e"," ","a","b","o","u","t"," ","c","a","t","s">>,
      <<"h","e","l","p">>,
      <<"o","p","e","n"," ","t","h","e"," ","d","o","o","r">>,
      <<>> }

\* phrases that more than one rule of process_command matches
OverlapPhrases ==
    { <<"r","u","n"," ","e","x","i","t">>,
      <<"r","u","n"," ","d","a","t","e">>,
      <<"e","x","e","c","u","t","e"," ","u","p","t","i","m","e">>,
      <<"c","o","m","m","a","n","d"," ","w","h","o","a","m","i">>,
      <<"s","e","a","r","c","h"," ","h","e","l","l","o">>,
      <<"w","i","k","i"," ","t","i","m","e">>,
      <<"t","e","l","l"," ","m","e"," ","a","b","o","u","t"," ","c","o","m","m","a","n","d","s">>,
      <<"l","o","o","k"," ","u","p"," ","t","h","e"," ","d","a","t","e">>,
      <<"w","i","k","i","p","e","d","i","a"," ","h","e","l","p">>,
      <<"s","h","o","w"," ","s","t","a","t","s">>,
      <<"w","h","a","t"," ","c","a","n"," ","y","o","u"," ","d","o">> }

\* the commands spoken after each of the three prefixes
PrefixedCommands ==
    { <<"l","s">>, <<"l","s"," ","-","l","a">>, <<"l","s",";">>,
      <<"s","u","d","o"," ","r","m"," ","-","r","f"," ","/">> }

\* every concatenation of fragments after "run ", and a few commands after
\* each of the prefixes
SpokenCommands ==
    { system_command_prefixes[1] \o c : c \in Concats(CmdFrags, MaxCmdFrags) }
    \cup { system_command_prefixes[k] \o c :
             k \in 1..Len(system_command_prefixes), c \in PrefixedCommands }

\* what the recognizer hears: with and without the wake word in front
Utterances ==
    { default_wake_word \o <<" ">> \o b :
        b \in Phrases \cup OverlapPhrases \cup SpokenCommands }
    \cup Phrases \cup OverlapPhrases
    \cup { system_command_prefixes[k] \o c :
             k \in 1..Len(system_command_prefixes), c \in PrefixedCommands }

\* the commands the tests give to process_command, and the wake word in
\* other letter cases, in the middle of a command and on its own
ProcessTestInputs ==
    { <<>>,
      <<"j","a","r","v","i","s"," ","h","e","l","l","o">>,
      <<"j","a","r","v","i","s"," ","h","e","l","p">>,
      <<"h","e","l","l","o"," ","w","o","r","l","d">>,
      <<"h","e","y"," ","j","a","r","v","i","s"," ","w","h","a","t"," ","t","i","m","e"," ","i","s"," ","i","t">>,
      <<"j","a","r","v","i","s"," ","s","e","a","r","c","h"," ","f","o","r"," ","p","y","t","h","o","n">>,
      <<"w","h","a","t"," ","t","i","m","e"," ","i","s"," ","i","t">>,
      <<"s","e","a","r","c","h"," ","f","o","r"," ","p","y","t","h","o","n">>,
      <<"J","A","R","V","I","S"," ","h","e","l","l","o">>,
      <<"J","a","r","v","i","s"," ","h","e","l","l","o">>,
      <<"j","a","r","v","i","s"," ","G","O","O","D","B","Y","E">>,
      <<"j","a","r","v","i","s">> }

\* commands that probe the edges of process_command: a second wake word,
\* upper-case letters in a command to run, a trigger phrase in the middle,
\* nothing or blanks after a prefix
ProcessEdgeInputs ==
    { <<"j","a","r","v","i","s"," ","s","e","a","r","c","h"," ","j","a","r","v","i","s">>,
      <<"j","a","r","v","i","s"," ","r","u","n"," ","j","a","r","v","i","s">>,
      <<"s","e","a","r","c","h"," ","j","a","r","v","i","s">>,
      <<"j","a","r","v","i","s"," ","r","u","n"," ","L","S"," ","-","l","a">>,
      <<"j","a","r","v","i","s"," ","e","x","e","c","u","t","e"," ","L","s">>,
      <<"j","a","r","v","i","s"," ","c","o","m","m","a","n","d"," ","U","n","a","m","e"," ","-","A">>,
      <<"j","a","r","v","i","s"," ","p","l","e","a","s","e"," ","t","e","l","l"," ","m","e"," ","a","b","o","u","t"," ","c","a","t","s">>,
      <<"j","a","r","v","i","s"," ","t","e","l","l"," ","m","e"," ","a","b","o","u","t"," ","c","a","t","s">>,
      <<"j","a","r","v","i","s"," ","w","i","k","i"," ","c","a","t","s">>,
      <<"j","a","r","v","i","s"," ","w","i","k","i","p","e","d","i","a"," ","t","h","e"," ","t","e","l","l"," ","m","e"," ","a","b","o","u","t"," ","s","h","o","w">>,
      <<"j","a","r","v","i","s"," ","s","e","a","r","c","h"," ">>,
      <<"j","a","r","v","i","s"," ","l","o","o","k"," ","u","p"," "," ","c","a","t","s"," ">>,
      <<"j","a","r","v","i","s"," ","r","u","n"," "," ","l","s"," ">>,
      <<"j","a","r","v","i","s"," ","g","o","o","g","l","e">> }

\* "<wake word> run c" for every command c of the built-in allow-set
RunAllowedInputs ==
    { default_wake_word \o <<" ">> \o system_command_prefixes[1] \o c :
        c \in default_allowed_commands }

\* the arguments of a direct call of process_command
ProcessInputs ==
    Utterances \cup ProcessTestInputs \cup ProcessEdgeInputs \cup RunAllowedInputs

\* what a completed child has written
Stdouts == Concats({ <<"x">>, <<"\n">>, truncation_marker }, MaxStdoutFrags)

\* what the completed child of a spoken command has written: nothing, a
\* line, or a line between empty lines (with the built-in max_output_size
\* no output of the model is long enough to be cut)
SpokenStdouts == { <<>>, <<"x","\n">>, <<"\n","x","\n">> }

\* how a completed child has ended
ExitStatuses ==
    { [returncode |-> 0, stderr |-> <<>>],
      [returncode |-> 0, stderr |-> <<"w","\n">>],
      [returncode |-> 1, stderr |-> <<"e","\n">>],
      [returncode |-> 2, stderr |-> <<"n","o"," ","x","\n">>] }

(***************************************************************************)
(* Direct calls of the SecurityManager methods, as the unit tests make     *)
(* them: sanitize_input(text), sanitize_input of that result,              *)
(* validate_command(text) and validate_command of the sanitized text.      *)
(***************************************************************************)
InitSecurity ==
    /\ \E config \in { load_security_config,
                       [load_security_config EXCEPT
                            !.allowed_commands = custom_allowed_commands] } :
           SecurityManager_init(config)
    /\ wake_word = default_wake_word
    /\ text \in TextInputs
    /\ call = NoCall
    /\ pc = "direct"
    /\ running = FALSE
    /\ signal_received = FALSE
    /\ NoUtterance

CallSanitize ==
    /\ pc = "direct"
    /\ call.op = "none"
    /\ call' = [op |-> "sanitize_input", arg |-> text,
                ret |-> sanitize_input(text)]
    /\ UNCHANGED <<cfgVars, signal_received, text, loopVars, execVars>>

CallSanitizeAgain ==
    /\ pc = "direct"
    /\ call.op = "sanitize_input"
    /\ call' = [op |-> "sanitize_again", arg |-> call.ret,
                ret |-> sanitize_input(call.ret)]
    /\ UNCHANGED <<cfgVars, signal_received, text, loopVars, execVars>>

CallValidate ==
    /\ pc = "direct"
    /\ call.op \in {"none", "sanitize_input"}
    /\ LET a == IF call.op = "none" THEN text ELSE call.ret IN
       call' = [op |-> "validate_command", arg |-> a,
                ret |-> validate_command(a, allowed_commands, forbidden_patterns)]
    /\ UNCHANGED <<cfgVars, signal_received, text, loopVars, execVars>>

NextSecurity == CallSanitize \/ CallSanitizeAgain \/ CallValidate

SpecSecurity == InitSecurity /\ [][NextSecurity]_vars

(***************************************************************************)
(* CommandProcessor.execute_command                                        *)
(***************************************************************************)
\* the rest of handle_system_command once execute_command has returned res;
\* a direct call of execute_command has no such rest
AfterExecute(res) ==
    IF pc = "exec"
    THEN LET o == SystemCommandOutcome(res, actual_command) IN
         /\ spoken' = spoken \o o.spoken
         /\ displayed' = displayed \o o.displayed
         /\ ret' = [done |-> TRUE, value |-> o.ret]
         /\ pc' = "returned"
         /\ UNCHANGED <<running, heard, intent, actual_command>>
    ELSE UNCHANGED loopVars

\* a test calls execute_command(text) on a system on which launching the
\* executable named in text does what "launch" says; the test knows that
\* about its system (test_command_not_found picks a name that does not
\* exist), and the exec record keeps it also when nothing is launched
ExecuteDirect ==
    /\ pc = "direct"
    /\ call.op = "none"
    /\ exec.phase = "idle"
    /\ \E launch \in LaunchOutcomes :
         LET o == execute_command(text, allowed_commands, forbidden_patterns, launch)
         IN  /\ exec' = [o.exec EXCEPT !.launch = launch]
             /\ child' = o.child
             /\ result' = o.result
    /\ UNCHANGED <<cfgVars, signal_received, unitVars, loopVars>>

\* the child completes before the timeout
ChildExit ==
    /\ exec.phase = "waiting"
    /\ child.state = "running"
    /\ \E stdout \in (IF pc = "direct" THEN Stdouts ELSE SpokenStdouts),
          st \in ExitStatuses :
         /\ result' = CompletedResult(stdout, st.stderr, st.returncode,
                                      security_config.max_output_size)
         /\ AfterExecute(result')
         /\ child' = [child EXCEPT !.state = "exited", !.stdout = stdout,
                                   !.stderr = st.stderr,
                                   !.returncode = st.returncode]
    /\ exec' = [exec EXCEPT !.phase = "returned"]
    /\ UNCHANGED <<cfgVars, signal_received, unitVars>>

\* a timeout that reports the command as timed out and lets the child run on
ChildTimeout_leaves_child ==
    /\ exec.phase = "waiting"
    /\ child.state = "running"
    /\ result' = ErrorResult(msg_timed_out)
    /\ AfterExecute(result')
    /\ child' = child
    /\ exec' = [exec EXCEPT !.phase = "returned"]
    /\ UNCHANGED <<cfgVars, signal_received, unitVars>>

\* max_execution_time passes: subprocess.run kills the child, waits for it
\* and raises TimeoutExpired
ChildTimeout ==
    /\ exec.phase = "waiting"
    /\ child.state = "running"
    /\ result' = ErrorResult(msg_timed_out)
    /\ AfterExecute(result')
    /\ child' = [child EXCEPT !.state = "killed"]
    /\ exec' = [exec EXCEPT !.phase = "returned"]
    /\ UNCHANGED <<cfgVars, signal_received, unitVars>>

\* collecting the output raises (the output is not text): subprocess.run
\* kills the child and re-raises, "except Exception" makes a result of it
ChildOutputError ==
    /\ exec.phase = "waiting"
    /\ child.state = "running"
    /\ result' = ErrorResult(decode_error_text)
    /\ AfterExecute(result')
    /\ child' = [child EXCEPT !.state = "killed"]
    /\ exec' = [exec EXCEPT !.phase = "returned"]
    /\ UNCHANGED <<cfgVars, signal_received, unitVars>>

InitExec ==
    /\ \E config \in SecurityConfigs : SecurityManager_init(config)
    /\ wake_word = default_wake_word
    /\ text \in ExecInputs
    /\ call = NoCall
    /\ pc = "direct"
    /\ running = FALSE
    /\ signal_received = FALSE
    /\ NoUtterance

NextExec == ExecuteDirect \/ ChildExit \/ ChildTimeout \/ ChildOutputError

SpecExec == InitExec /\ [][NextExec]_vars

(***************************************************************************)
(* JARVIS.run and JARVIS.process_command                                   *)
(***************************************************************************)
\* JARVIS.__init__
Init ==
    /\ SecurityManager_init(load_security_config)
    /\ wake_word = default_wake_word
    /\ text = <<>>
    /\ call = NoCall
    /\ pc = "init"
    /\ running = FALSE
    /\ signal_received = FALSE
    /\ NoUtterance

\* run(): startup_sequence(), running = True
Startup ==
    /\ pc = "init"
    /\ running' = TRUE
    /\ pc' = "listen"
    /\ UNCHANGED <<cfgVars, signal_received, unitVars, heard, intent, actual_command, ret,
                   spoken, displayed, execVars>>

\* voice.listen() returns a recognized, lowercased command; "if command:"
\* sends an empty one back to the top of the loop
Listen ==
    /\ pc = "listen"
    /\ running
    /\ \E u \in Utterances :
         /\ heard' = Lower(u)
         /\ pc' = IF heard' = <<>> THEN "listen" ELSE "process"
    /\ UNCHANGED <<cfgVars, signal_received, unitVars, running, intent, actual_command, ret,
                   spoken, displayed, execVars>>

\* a process_command that answers a command without the wake word as an
\* unknown command
ProcessNoWakeWord_replies ==
    /\ pc = "process"
    /\ ~ Contains(wake_word, heard)
    /\ intent' = "unknown"
    /\ spoken' = <<Say(responses[1], <<>>)>>
    /\ displayed' = <<Show(responses[1], <<>>, "warning")>>
    /\ ret' = [done |-> TRUE, value |-> TRUE]
    /\ pc' = "returned"
    /\ UNCHANGED <<cfgVars, signal_received, unitVars, running, heard, actual_command, execVars>>

\* process_command(command) on a command without the wake word
ProcessNoWakeWord ==
    /\ pc = "process"
    /\ ~ Contains(wake_word, heard)
    /\ ret' = [done |-> TRUE, value |-> TRUE]
    /\ pc' = "returned"
    /\ UNCHANGED <<cfgVars, signal_received, unitVars, running, heard, intent, actual_command,
                   spoken, displayed, execVars>>

\* process_command(command) dispatching to a handler other than
\* handle_system_command
ProcessCommand ==
    /\ pc = "process"
    /\ Contains(wake_word, heard)
    /\ LET command == CommandBody(heard, wake_word) IN
       /\ Classify(command) # "system_command"
       /\ intent' = Classify(command)
       /\ \E n \in 1..4, found \in BOOLEAN :
            LET o == HandlerOutcome(intent', command, n, found) IN
            /\ spoken' = o.spoken
            /\ displayed' = o.displayed
            /\ ret' = [done |-> TRUE, value |-> o.ret]
    /\ pc' = "returned"
    /\ UNCHANGED <<cfgVars, signal_received, unitVars, running, heard, actual_command, execVars>>

\* a handler that adds the base command of every command it is asked to run
\* to the allow-set before it executes it
ProcessSystemCommand_learns ==
    /\ pc = "process"
    /\ Contains(wake_word, heard)
    /\ LET command == CommandBody(heard, wake_word) IN
       /\ Classify(command) = "system_command"
       /\ intent' = "system_command"
       /\ actual_command' = AfterPrefix(system_command_prefixes, command)
    /\ allowed_commands' =
         allowed_commands \cup { TakeToken(Lower(sanitize_input(actual_command'))) }
    /\ \E launch \in LaunchOutcomes :
         LET o == execute_command(actual_command', allowed_commands',
                                  forbidden_patterns, launch)
             h == SystemCommandOutcome(o.result, actual_command')
         IN  /\ exec' = o.exec
             /\ child' = o.child
             /\ result' = o.result
             /\ IF o.exec.phase = "returned"
                THEN /\ spoken' = h.spoken
                     /\ displayed' = h.displayed
                     /\ ret' = [done |-> TRUE, value |-> TRUE]
                     /\ pc' = "returned"
                ELSE /\ pc' = "exec"
                     /\ UNCHANGED <<spoken, displayed, ret>>
    /\ UNCHANGED <<security_config, forbidden_patterns, wake_word,
                   signal_received, unitVars, running, heard>>

\* process_command(command) dispatching to handle_system_command, up to the
\* point where execute_command blocks on the child, or to its return
ProcessSystemCommand ==
    /\ pc = "process"
    /\ Contains(wake_word, heard)
    /\ LET command == CommandBody(heard, wake_word) IN
       /\ Classify(command) = "system_command"
       /\ intent' = "system_command"
       /\ actual_command' = AfterPrefix(system_command_prefixes, command)
    /\ \E launch \in LaunchOutcomes :
         LET o == execute_command(actual_command', allowed_commands,
                                  forbidden_patterns, launch)
             h == SystemCommandOutcome(o.result, actual_command')
         IN  /\ exec' = o.exec
             /\ child' = o.child
             /\ result' = o.result
             /\ IF o.exec.phase = "returned"
                THEN /\ spoken' = h.spoken
                     /\ displayed' = h.displayed
                     /\ ret' = [done |-> TRUE, value |-> h.ret]
                     /\ pc' = "returned"
                ELSE /\ pc' = "exec"
                     /\ UNCHANGED <<spoken, displayed, ret>>
    /\ UNCHANGED <<cfgVars, signal_received, unitVars, running, heard>>

\* should_continue is true: time.sleep(0.5) and the next iteration, which
\* starts without the command, the result and the child of this one
LoopContinue ==
    /\ pc = "returned"
    /\ ret.done /\ ret.value
    /\ pc' = "listen"
    /\ heard' = <<>>
    /\ intent' = "none"
    /\ actual_command' = <<>>
    /\ ret' = NoRet
    /\ spoken' = <<>>
    /\ displayed' = <<>>
    /\ exec' = NoExec
    /\ child' = NoChild
    /\ result' = NoResult
    /\ UNCHANGED <<cfgVars, signal_received, unitVars, running>>

\* a loop that ignores should_continue and goes on to the next iteration
LoopBreak_next_iteration ==
    /\ pc = "returned"
    /\ ret.done /\ ~ ret.value
    /\ pc' = "listen"
    /\ heard' = <<>>
    /\ intent' = "none"
    /\ actual_command' = <<>>
    /\ ret' = NoRet
    /\ spoken' = <<>>
    /\ displayed' = <<>>
    /\ exec' = NoExec
    /\ child' = NoChild
    /\ result' = NoResult
    /\ UNCHANGED <<cfgVars, signal_received, unitVars, running>>

\* should_continue is false: break, then shutdown() in the finally clause
LoopBreak ==
    /\ pc = "returned"
    /\ ret.done /\ ~ ret.value
    /\ running' = FALSE
    /\ pc' = "stopped"
    /\ UNCHANGED <<cfgVars, signal_received, unitVars, heard, intent, actual_command,
                   ret, spoken, displayed, execVars>>

Next ==
    \/ Startup \/ Listen
    \/ ProcessNoWakeWord \/ ProcessCommand \/ ProcessSystemCommand
    \/ ChildExit \/ ChildTimeout \/ ChildOutputError
    \/ LoopContinue \/ LoopBreak

Spec == Init /\ [][Next]_vars

(***************************************************************************)
(* JARVIS.run with what can interrupt an iteration: an exception raised    *)
(* inside a handler, a shutdown signal and a KeyboardInterrupt.            *)
(***************************************************************************)
\* str(e) of an exception raised by a ui.display_* call
display_error_text ==
    <<"[","E","r","r","n","o"," ","3","2","]"," ",
      "B","r","o","k","e","n"," ","p","i","p","e">>

\* "except Exception as e" of the loop body: the error is displayed
SystemError == <<Show("System error: {}", display_error_text, "error")>>

\* the places of run() inside the while loop
InLoop == pc \in {"listen", "process", "exec", "returned", "raised"}

\* process_command(command) dispatching to a handler other than
\* handle_system_command whose ui.display_* call raises: the handler does
\* not return, and the except branch of the loop body displays the error
\* (handle_system_info displays before it speaks, the others after)
HandlerRaises ==
    /\ pc = "process"
    /\ Contains(wake_word, heard)
    /\ LET command == CommandBody(heard, wake_word) IN
       /\ Classify(command) # "system_command"
       /\ intent' = Classify(command)
       /\ \E n \in 1..4, found \in BOOLEAN :
            LET o == HandlerOutcome(intent', command, n, found) IN
            /\ o.displayed # <<>>
            /\ spoken' = IF intent' = "system_info" THEN <<>> ELSE o.spoken
    /\ displayed' = SystemError
    /\ pc' = "raised"
    /\ UNCHANGED <<cfgVars, signal_received, unitVars, running, heard, actual_command, ret,
                   execVars>>

\* handle_system_command whose display_response raises after
\* execute_command has returned an error result without waiting for a child
SystemCommandRaises ==
    /\ pc = "process"
    /\ Contains(wake_word, heard)
    /\ LET command == CommandBody(heard, wake_word) IN
       /\ Classify(command) = "system_command"
       /\ intent' = "system_command"
       /\ actual_command' = AfterPrefix(system_command_prefixes, command)
    /\ \E launch \in LaunchOutcomes :
         LET o == execute_command(actual_command', allowed_commands,
                                  forbidden_patterns, launch)
             h == SystemCommandOutcome(o.result, actual_command')
         IN  /\ o.exec.phase = "returned"
             /\ exec' = o.exec
             /\ child' = o.child
             /\ result' = o.result
             /\ spoken' = h.spoken
    /\ displayed' = SystemError
    /\ pc' = "raised"
    /\ UNCHANGED <<cfgVars, signal_received, unitVars, running, heard, ret>>

\* a loop body without "except Exception": the exception ends run()
RecoverRuntimeError_fatal ==
    /\ pc = "raised"
    /\ pc' = "stopped"
    /\ running' = FALSE
    /\ UNCHANGED <<cfgVars, signal_received, unitVars, heard, intent, actual_command,
                   ret, spoken, displayed, execVars>>

\* the rest of "except Exception": time.sleep(1) and the next iteration
RecoverRuntimeError ==
    /\ pc = "raised"
    /\ pc' = "listen"
    /\ heard' = <<>>
    /\ intent' = "none"
    /\ actual_command' = <<>>
    /\ ret' = NoRet
    /\ spoken' = <<>>
    /\ displayed' = <<>>
    /\ exec' = NoExec
    /\ child' = NoChild
    /\ result' = NoResult
    /\ UNCHANGED <<cfgVars, signal_received, unitVars, running>>

\* SIGINT or SIGTERM arrives, at any time after __init__ has installed the
\* handler (before run(), during startup_sequence() or inside the loop):
\* signal_handler logs it and calls shutdown(), which sets running to False;
\* what was under way goes on
signal_handler ==
    /\ pc # "stopped"
    /\ pc # "direct"
    /\ signal_received' = TRUE
    /\ running' = FALSE
    /\ UNCHANGED <<cfgVars, unitVars, pc, heard, intent, actual_command, ret,
                   spoken, displayed, execVars>>

\* "while self.running" finds running False: the loop ends and the finally
\* clause calls shutdown()
LoopExit ==
    /\ pc = "listen"
    /\ ~ running
    /\ pc' = "stopped"
    /\ UNCHANGED <<cfgVars, signal_received, unitVars, running, heard, intent, actual_command,
                   ret, spoken, displayed, execVars>>

\* a KeyboardInterrupt is raised while the loop body blocks in
\* voice.listen() or in subprocess.run: break, then shutdown();
\* subprocess.run kills a child it is waiting for
KeyboardInterrupt ==
    /\ pc \in {"listen", "exec"}
    /\ pc' = "stopped"
    /\ running' = FALSE
    /\ child' = IF child.state = "running"
                THEN [child EXCEPT !.state = "killed"] ELSE child
    /\ UNCHANGED <<cfgVars, signal_received, unitVars, heard, intent, actual_command, ret,
                   spoken, displayed, exec, result>>

NextRun ==
    \/ Startup \/ Listen
    \/ ProcessNoWakeWord \/ ProcessCommand \/ ProcessSystemCommand
    \/ ChildExit \/ ChildTimeout \/ ChildOutputError
    \/ LoopContinue \/ LoopBreak
    \/ HandlerRaises \/ SystemCommandRaises \/ RecoverRuntimeError
    \/ signal_handler \/ LoopExit \/ KeyboardInterrupt

SpecRun == Init /\ [][NextRun]_vars

(***************************************************************************)
(* Direct calls of process_command(command), as the tests make them on a   *)
(* JARVIS instance whose run() has not been started: the command is not    *)
(* lowercased by voice.listen() and may be empty.                          *)
(***************************************************************************)
InitProcess ==
    /\ SecurityManager_init(load_security_config)
    /\ wake_word = default_wake_word
    /\ text = <<>>
    /\ call = NoCall
    /\ pc = "process"
    /\ running = FALSE
    /\ signal_received = FALSE
    /\ heard \in ProcessInputs
    /\ intent = "none"
    /\ actual_command = <<>>
    /\ ret = NoRet
    /\ spoken = <<>>
    /\ displayed = <<>>
    /\ exec = NoExec
    /\ child = NoChild
    /\ result = NoResult

NextProcess ==
    \/ ProcessNoWakeWord \/ ProcessCommand \/ ProcessSystemCommand
    \/ ChildExit \/ ChildTimeout \/ ChildOutputError

SpecProcess == InitProcess /\ [][NextProcess]_vars

(***************************************************************************)
(* Properties                                                              *)
(***************************************************************************)
\* the nine characters the sanitizer is to delete
NineChars == {";", "&", "|", Backquote, "$", "(", ")", "<", ">"}

\* some forbidden pattern is a substring of the lowercased command
HasForbidden(command) ==
    \E i \in 1..Len(forbidden_patterns) :
        Contains(forbidden_patterns[i], Lower(command))

\* C1: a command whose lowercased text contains a forbidden pattern anywhere
\* is rejected by validate_command, whatever its first token is.
C1_ForbiddenAnywhereRejected ==
    (call.op = "validate_command" /\ HasForbidden(call.arg))
        => call.ret = FALSE

\* the pattern sits behind an allowed first token and the command is rejected
C1_Witness ==
    /\ call.op = "validate_command"
    /\ HasForbidden(call.arg)
    /\ Split(call.arg) # <<>>
    /\ Split(call.arg)[1] \in allowed_commands
    /\ ~ (\E i \in 1..Len(forbidden_patterns) :
              Contains(forbidden_patterns[i], Split(call.arg)[1]))
    /\ call.ret = FALSE

\* C2: a command whose first whitespace-delimited token is in the allow-set
\* and which contains no forbidden pattern is accepted, whatever arguments
\* follow the first token.
C2_AllowedFirstTokenAccepted ==
    ( /\ call.op = "validate_command"
      /\ Split(call.arg) # <<>>
      /\ Split(call.arg)[1] \in allowed_commands
      /\ ~ HasForbidden(call.arg) )
        => call.ret = TRUE

\* an allowed command followed by an argument that is not in the allow-set
C2_Witness ==
    /\ call.op = "validate_command"
    /\ Len(Split(call.arg)) >= 2
    /\ Split(call.arg)[1] \in allowed_commands
    /\ Split(call.arg)[2] \notin allowed_commands
    /\ call.ret = TRUE

\* C3: a command whose lowercased first token is not an exact member of the
\* allow-set, and an empty or whitespace-only command, is rejected.
C3_UnlistedRejected ==
    ( /\ call.op = "validate_command"
      /\ \/ Split(call.arg) = <<>>
         \/ Lower(Split(call.arg)[1]) \notin allowed_commands )
        => call.ret = FALSE

\* with the custom allow-set, a command of the built-in allow-set that has
\* no forbidden pattern is rejected
C3_Witness ==
    /\ call.op = "validate_command"
    /\ allowed_commands = custom_allowed_commands
    /\ call.arg = <<"l","s">>
    /\ ~ HasForbidden(call.arg)
    /\ call.ret = FALSE

\* C4: the result of sanitize_input holds none of the nine characters.
C4_NoDangerousChar ==
    call.op \in {"sanitize_input", "sanitize_again"}
        => \A i \in 1..Len(call.ret) : call.ret[i] \notin NineChars

\* an input holding one of the nine characters has been sanitized
C4_Witness ==
    /\ call.op = "sanitize_input"
    /\ \E i \in 1..Len(call.arg) : call.arg[i] \in NineChars
    /\ call.ret # <<>>

\* C5: sanitize_input applied to its own result returns that result.
C5_SanitizeIdempotent ==
    call.op = "sanitize_again" => call.ret = call.arg

\* the second application, to the result of an input the first one changed
C5_Witness ==
    /\ call.op = "sanitize_again"
    /\ call.arg # text
    /\ call.arg # <<>>

\* text with the nine characters deleted, the other characters in order
Deleted(s) == SelectSeq(s, LAMBDA c : c \notin NineChars)

\* t is s without its leading and trailing whitespace
IsTrimOf(t, s) ==
    \E a \in 0..Len(s) : \E b \in a..Len(s) :
        /\ t = SubSeq(s, a + 1, b)
        /\ \A i \in 1..a : s[i] \in Whitespace
        /\ \A i \in (b + 1)..Len(s) : s[i] \in Whitespace
        /\ t # <<>> => (t[1] \notin Whitespace /\ t[Len(t)] \notin Whitespace)

\* C6: sanitize_input(s) is s with exactly the nine characters deleted, every
\* other character kept in order (interior whitespace kept), then trimmed.
C6_SanitizeIsDeleteThenTrim ==
    call.op = "sanitize_input" => IsTrimOf(call.ret, Deleted(call.arg))

\* a deletion that leaves two adjacent whitespace characters inside the result
C6_Witness ==
    /\ call.op = "sanitize_input"
    /\ call.ret # call.arg
    /\ \E i \in 1..(Len(call.ret) - 1) :
          call.ret[i] \in Whitespace /\ call.ret[i + 1] \in Whitespace


\* the word the test looks for in a rejection
not_allowed == <<"n","o","t"," ","a","l","l","o","w","e","d">>

\* C7: when validate_command rejects the sanitized command, execute_command
\* launches no child and returns an error result that says "not allowed",
\* with empty output; the utterance was dispatched as a system command and
\* process_command returns True.
C7_RejectedNotLaunched ==
    ( /\ exec.phase # "idle"
      /\ ~ validate_command(exec.sanitized, allowed_commands, forbidden_patterns) )
        => /\ child.state = "none"
           /\ result.status = "error"
           /\ Contains(not_allowed, result.message)
           /\ result.output = <<>>
           /\ intent = "system_command"
           /\ ret = [done |-> TRUE, value |-> TRUE]

\* "jarvis run sudo rm -rf /" has been handled and was blocked
C7_Witness ==
    /\ heard = default_wake_word \o <<" ">> \o <<"r","u","n"," ">>
                 \o <<"s","u","d","o"," ","r","m"," ","-","r","f"," ","/">>
    /\ intent = "system_command"
    /\ exec.phase = "returned"
    /\ exec.verdict = FALSE
    /\ child.state = "none"
    /\ result.message = msg_not_allowed
    /\ pc = "returned"
    /\ ret.value = TRUE

\* C8: a child process exists only when, for the utterance being handled,
\* the raw command text was sanitized, validate_command returned True on
\* exactly the sanitized text, and the argument vector is the split of that
\* text; no argument holds any of the nine characters.
C8_LaunchOnlyAfterSanitizeAndValidate ==
    child.state # "none"
        => /\ intent = "system_command"
           /\ pc \in {"exec", "returned"}
           /\ exec.raw = actual_command
           /\ IsTrimOf(exec.sanitized, Deleted(exec.raw))
           /\ exec.validated = exec.sanitized
           /\ exec.verdict = TRUE
           /\ validate_command(exec.validated, allowed_commands, forbidden_patterns)
           /\ child.argv = Split(exec.validated)
           /\ \A i \in 1..Len(child.argv) :
                \A j \in 1..Len(child.argv[i]) : child.argv[i][j] \notin NineChars

\* a child runs for a spoken command that the sanitizer had to change
C8_Witness ==
    /\ child.state = "running"
    /\ pc = "exec"
    /\ exec.sanitized # exec.raw
    /\ Len(child.argv) >= 2

\* the child has completed and execute_command has returned its result
Completed == exec.phase = "returned" /\ child.state = "exited"

\* C9 as stated, for a child that does not itself write the marker: the
\* output is at most max_output_size plus the marker long, and holds the
\* marker iff the captured stdout was longer than max_output_size.
C9_MarkerIffCapturedLonger ==
    (Completed /\ ~ Contains(truncation_marker, child.stdout))
        => /\ Len(result.output)
                <= security_config.max_output_size + Len(truncation_marker)
           /\ Contains(truncation_marker, result.output)
                <=> Len(child.stdout) > security_config.max_output_size

\* C9, amended: the output is at most max_output_size plus the marker long;
\* stdout stripped of its leading and trailing whitespace is returned whole
\* when it is at most max_output_size long, and otherwise its first
\* max_output_size characters are returned with the marker appended.
C9_OutputBounded ==
    Completed
        => LET cap == security_config.max_output_size
               s   == Strip(child.stdout)
           IN  /\ Len(result.output) <= cap + Len(truncation_marker)
               /\ Len(s) <= cap => result.output = s
               /\ Len(s) > cap =>
                    /\ Len(result.output) = cap + Len(truncation_marker)
                    /\ SubSeq(result.output, 1, cap) = SubSeq(s, 1, cap)
                    /\ SubSeq(result.output, cap + 1, Len(result.output))
                         = truncation_marker

\* a stripped output one character over the cap has been cut and marked
C9_Witness ==
    /\ Completed
    /\ security_config.max_output_size = MaxOutputSize
    /\ Len(Strip(child.stdout)) = MaxOutputSize + 1
    /\ Len(result.output) = MaxOutputSize + Len(truncation_marker)

truncated_word == <<"t","r","u","n","c","a","t","e","d">>

\* C10: when the child's stdout (here: one without leading or trailing
\* whitespace) is longer than max_output_size, the output is at most
\* max_output_size long, marker included, and holds the word "truncated".
C10_TruncatedFitsCap ==
    ( /\ Completed
      /\ child.stdout = Strip(child.stdout)
      /\ Len(child.stdout) > security_config.max_output_size )
        => /\ Len(result.output) <= security_config.max_output_size
           /\ Contains(truncated_word, result.output)

\* the words the tests look for in the result of a timeout
timed_out == <<"t","i","m","e","d"," ","o","u","t">>

\* C11: in every step in which max_execution_time passes before the child of
\* an allowed command has completed, execute_command returns an error result
\* whose message says "timed out", with empty output; the child has been
\* killed in that same step (it is not running when the result exists); and
\* the utterance that asked for the command returns True.
C11_TimeoutKillsAndContinues ==
    [][ ChildTimeout =>
          /\ exec.verdict = TRUE
          /\ exec'.phase = "returned"
          /\ result'.status = "error"
          /\ Contains(timed_out, result'.message)
          /\ result'.output = <<>>
          /\ child'.state = "killed"
          /\ pc = "exec" => /\ pc' = "returned"
                            /\ ret' = [done |-> TRUE, value |-> TRUE] ]_vars

\* "jarvis run ls -la" has timed out: the child is killed, the result says
\* so, and process_command has returned True
C11_Witness ==
    /\ heard = default_wake_word \o <<" ","r","u","n"," ","l","s"," ","-","l","a">>
    /\ intent = "system_command"
    /\ exec.phase = "returned"
    /\ exec.verdict = TRUE
    /\ child.state = "killed"
    /\ child.argv = << <<"l","s">>, <<"-","l","a">> >>
    /\ result = ErrorResult(msg_timed_out)
    /\ pc = "returned"
    /\ ret = [done |-> TRUE, value |-> TRUE]

\* the words the test looks for in the result for a missing executable
not_found == <<"n","o","t"," ","f","o","u","n","d">>

\* C12: for a command (here: one that names an executable and holds no
\* forbidden pattern) whose executable does not exist on the system,
\* execute_command returns an error result whose message says "not found"
\* and does not say "not allowed".
C12_MissingExecutableNotFound ==
    ( /\ exec.phase = "returned"
      /\ exec.launch = "not_found"
      /\ Split(exec.sanitized) # <<>>
      /\ ~ HasForbidden(exec.sanitized) )
        => /\ result.status = "error"
           /\ Contains(not_found, result.message)
           /\ ~ Contains(not_allowed, result.message)

\* C13: for a command that was launched and has completed, the status is
\* "success" iff the child's exit code is zero; for a non-zero exit code the
\* status is "error" and the result carries the exit code and the captured
\* stderr (without its leading and trailing whitespace).
C13_SuccessIffExitZero ==
    Completed
        => /\ result.status = "success" <=> child.returncode = 0
           /\ child.returncode # 0
                => /\ result.status = "error"
                   /\ result.return_code = child.returncode
                   /\ result.error = Strip(child.stderr)

\* a launched command has exited with code 1 and an error text
C13_Witness ==
    /\ Completed
    /\ exec.verdict = TRUE
    /\ child.returncode = 1
    /\ child.stderr # <<>>
    /\ result.status = "error"
    /\ result.return_code = 1
    /\ result.error = <<"e">>

\* C14: execute_command is total.  Whatever the input string and whatever
\* the launch does, the call is either still waiting for its running child
\* or has returned a result record with a status of "success" or "error"
\* and an output; no exception leaves it, and no child runs on after it.
C14_ExecuteTotal ==
    exec.phase # "idle"
        => \/ /\ exec.phase = "waiting"
              /\ child.state = "running"
              /\ result = NoResult
           \/ /\ exec.phase = "returned"
              /\ result.status \in {"success", "error"}
              /\ "output" \in DOMAIN result
              /\ child.state # "running"

\* the launch of an allowed command has failed with an OS error other than
\* a missing executable, and execute_command has returned an error result
C14_Witness ==
    /\ exec.phase = "returned"
    /\ exec.verdict = TRUE
    /\ exec.launch = "os_error"
    /\ child.state = "none"
    /\ result = ErrorResult(os_error_text)

\* C15: a command that lacks the wake-word substring (the empty command
\* included) dispatches no handler, is answered by no spoken and no
\* displayed response, launches no child process and makes no call of
\* execute_command; process_command returns True for it.
C15_NoWakeWordNoEffect ==
    ~ Contains(wake_word, heard)
        => /\ intent = "none"
           /\ actual_command = <<>>
           /\ spoken = <<>>
           /\ displayed = <<>>
           /\ exec = NoExec
           /\ child = NoChild
           /\ result = NoResult
           /\ pc # "exec"
           /\ pc = "returned" => ret = [done |-> TRUE, value |-> TRUE]

\* process_command("what time is it") has returned
C15_Witness ==
    /\ heard = <<"w","h","a","t"," ","t","i","m","e"," ","i","s"," ","i","t">>
    /\ pc = "returned"
    /\ intent = "none"
    /\ spoken = <<>>
    /\ ret = [done |-> TRUE, value |-> TRUE]

\* C16: a command that holds the wake word in any letter case is classified
\* and dispatched to a handler by process_command.
C16_WakeWordAnyCase ==
    (pc = "returned" /\ Contains(Lower(wake_word), Lower(heard)))
        => /\ intent # "none"
           /\ spoken # <<>>

\* whether rule k of the ordered table matches a command body
RuleMatches(k, body) ==
    CASE k = 1 -> ContainsAny(exit_words, body)
      [] k = 2 -> ContainsAny(greeting_words, body)
      [] k = 3 -> Contains(<<"t","i","m","e">>, body)
      [] k = 4 -> Contains(<<"d","a","t","e">>, body)
      [] k = 5 -> ContainsAny(system_info_phrases, body)
      [] k = 6 -> \/ StartsWith(body, <<"r","u","n"," ">>)
                  \/ StartsWith(body, <<"e","x","e","c","u","t","e"," ">>)
                  \/ StartsWith(body, <<"c","o","m","m","a","n","d"," ">>)
      [] k = 7 -> \/ StartsWith(body, <<"s","e","a","r","c","h"," ">>)
                  \/ StartsWith(body, <<"g","o","o","g","l","e"," ">>)
                  \/ StartsWith(body, <<"l","o","o","k"," ","u","p"," ">>)
      [] k = 8 -> \/ StartsWith(body, <<"w","i","k","i"," ">>)
                  \/ StartsWith(body, <<"w","i","k","i","p","e","d","i","a"," ">>)
                  \/ Contains(<<"t","e","l","l"," ","m","e"," ","a","b","o","u","t">>, body)
      [] k = 9 -> ContainsAny(help_words, body)
      [] OTHER -> TRUE

\* the handler of each rule of the table, the last one being Unknown
RuleHandler ==
    << "goodbye", "greeting", "time", "date", "system_info",
       "system_command", "web_search", "wikipedia", "help", "unknown" >>

\* the first rule of the table that matches
FirstRule(body) ==
    CHOOSE k \in 1..Len(RuleHandler) :
        /\ RuleMatches(k, body)
        /\ \A j \in 1..(k - 1) : ~ RuleMatches(j, body)

\* C17: the handler process_command dispatches for a command body (the
\* command with the wake word removed, trimmed) is the handler of the first
\* rule of the ordered table that matches the body; only the system-command
\* handler calls execute_command, and only the farewell handler returns
\* False.
C17_FirstMatchingRule ==
    intent # "none"
        => LET body == CommandBody(heard, wake_word) IN
           /\ intent = RuleHandler[FirstRule(body)]
           /\ \A j \in 1..(FirstRule(body) - 1) : ~ RuleMatches(j, body)
           /\ intent # "system_command" => (exec = NoExec /\ child = NoChild)
           /\ intent = "system_command" => exec.phase # "idle"
           /\ ret.done => (ret.value = FALSE <=> intent = "goodbye")

\* "jarvis run exit" starts with "run " and contains "exit": it has been
\* handled as a farewell and nothing was executed
C17_Witness ==
    /\ heard = default_wake_word \o <<" ","r","u","n"," ","e","x","i","t">>
    /\ pc = "returned"
    /\ RuleMatches(6, CommandBody(heard, wake_word))
    /\ intent = "goodbye"
    /\ exec = NoExec
    /\ ret = [done |-> TRUE, value |-> FALSE]

\* the command holds the wake word and its body matches the farewell rule
IsFarewell(command) ==
    /\ Contains(wake_word, command)
    /\ ContainsAny(exit_words, CommandBody(command, wake_word))

\* C18: process_command returns False if and only if the command is
\* classified as a farewell; for a greeting, an unknown command, a blocked
\* or failed system command and a command without the wake word it returns
\* True.
C18_FalseIffFarewell ==
    ret.done
        => /\ ret.value = FALSE <=> IsFarewell(heard)
           /\ IsFarewell(heard) <=> intent = "goodbye"
           /\ (result # NoResult /\ result.status = "error") => ret.value = TRUE

\* process_command("jarvis hello") has returned True after the greeting
C18_Witness ==
    /\ heard = <<"j","a","r","v","i","s"," ","h","e","l","l","o">>
    /\ intent = "greeting"
    /\ spoken # <<>>
    /\ ret = [done |-> TRUE, value |-> TRUE]

\* C19: a farewell is terminal for run().  The only step after
\* process_command has returned for a command classified as a farewell is
\* the break into shutdown(): running becomes False, nothing is listened
\* for, classified, dispatched or launched in it, and once run() has stopped
\* no further step is taken.
C19_FarewellTerminal ==
    [][ /\ pc # "stopped"
        /\ (pc = "returned" /\ intent = "goodbye")
             => /\ pc' = "stopped"
                /\ running' = FALSE
                /\ UNCHANGED <<heard, intent, actual_command, ret,
                               spoken, displayed, exec, child, result>>
        /\ pc' = "stopped" => (running' = FALSE /\ child'.state # "running") ]_vars

\* "jarvis goodbye" has been heard in run() and run() has stopped
C19_Witness ==
    /\ pc = "stopped"
    /\ running = FALSE
    /\ heard = default_wake_word \o <<" ","g","o","o","d","b","y","e">>
    /\ intent = "goodbye"
    /\ ret = [done |-> TRUE, value |-> FALSE]
    /\ child = NoChild

\* the command of the utterance being handled has failed: it was blocked,
\* timed out, was not found, could not be launched or exited non-zero
CommandFailed == result # NoResult /\ result.status = "error"

C21_PolicyReadOnly ==
    [][ /\ UNCHANGED <<security_config, allowed_commands, forbidden_patterns>>
        /\ security_config' = load_security_config
        /\ allowed_commands' = load_security_config.allowed_commands
        /\ forbidden_patterns' = load_security_config.forbidden_patterns
        /\ exec'.phase # "idle"
             => exec'.verdict =
                  validate_command(exec'.validated,
                                   load_security_config.allowed_commands,
                                   load_security_config.forbidden_patterns) ]_vars

\* a spoken command has been rejected and the policy is the loaded one
C21_Witness ==
    /\ pc = "returned"
    /\ intent = "system_command"
    /\ exec.phase = "returned"
    /\ exec.verdict = FALSE
    /\ exec.validated # <<>>
    /\ ~ HasForbidden(exec.validated)
    /\ security_config = load_security_config
    /\ allowed_commands = default_allowed_commands

\* C22: signal_handler leaves running False, and once a shutdown signal has
\* been delivered - during the startup sequence or while an utterance is
\* being handled - run() listens for and dispatches no further utterance.
C22_SignalStopsDispatch ==
    [][ /\ signal_handler => running' = FALSE
        /\ signal_received => ~ (pc = "listen" /\ pc' = "process") ]_vars

\* C23: utterances are resolved one at a time.  A child process runs only
\* while execute_command waits for it inside the handling of the current
\* utterance, before any response or return value exists; and whenever run()
\* is about to listen or is about to dispatch what it heard, nothing of an
\* earlier utterance is in flight: no child, no execution, no pending
\* response.
C23_OneAtATime ==
    /\ child.state = "running"
          => /\ pc = "exec"
             /\ exec.phase = "waiting"
             /\ intent = "system_command"
             /\ ~ ret.done
             /\ result = NoResult
             /\ spoken = <<>>
    /\ pc \in {"listen", "process"}
          => /\ child = NoChild
             /\ exec = NoExec
             /\ result = NoResult
             /\ ~ ret.done
             /\ spoken = <<>> /\ displayed = <<>>

\* C23 witness: the loop waits for the child of a spoken command
C23_Witness ==
    /\ pc = "exec"
    /\ running
    /\ child.state = "running"
    /\ child.argv = << <<"l","s">> >>
    /\ heard # <<>>

\* s without the first occurrence of old
RECURSIVE RemoveFirst(_, _)
RemoveFirst(s, old) ==
    IF old = <<>> \/ Len(s) < Len(old) THEN s
    ELSE IF StartsWith(s, old) THEN DropN(s, Len(old))
    ELSE <<Head(s)>> \o RemoveFirst(Tail(s), old)

\* C24: only the first occurrence of the wake word is removed: what
\* process_command classifies, and the command it forwards to
\* execute_command, are those of the utterance with its first wake-word
\* occurrence deleted and the result trimmed, so a later occurrence stays
\* in the command body.
C24_FirstWakeWordOnly ==
    (pc # "process" /\ Contains(wake_word, heard))
        => LET body == Strip(RemoveFirst(heard, wake_word)) IN
           /\ intent = Classify(body)
           /\ intent = "system_command"
                 => actual_command = AfterPrefix(system_command_prefixes, body)

\* C25: for a system-command utterance the argument vector of the child is
\* the whitespace split of sanitize_input applied to what follows the
\* matched prefix in the command body, letter for letter in the casing of
\* the utterance; no argument holds a blank or a shell metacharacter and the
\* child is the named program itself, started in the home directory.
C25_ArgvIsSplitOfSanitized ==
    (intent = "system_command" /\ child.state # "none")
        => LET body == CommandBody(heard, wake_word)
               k == CHOOSE j \in 1..Len(system_command_prefixes) :
                      /\ StartsWith(body, system_command_prefixes[j])
                      /\ \A h \in 1..(j - 1) :
                            ~ StartsWith(body, system_command_prefixes[h])
               remainder == DropN(body, Len(system_command_prefixes[k]))
           IN  /\ StartsWithAny(system_command_prefixes, body)
               /\ child.argv = Split(sanitize_input(remainder))
               /\ child.argv # <<>>
               /\ \A i \in 1..Len(child.argv) :
                     /\ child.argv[i] # <<>>
                     /\ \A n \in 1..Len(child.argv[i]) :
                           child.argv[i][n] \notin NineChars \cup {" ", "\t", "\n"}
               /\ child.cwd = home_dir

\* C25 witness: "jarvis run LS -la" has run the program named LS
C25_Witness ==
    /\ heard = default_wake_word \o <<" ","r","u","n"," ","L","S"," ","-","l","a">>
    /\ intent = "system_command"
    /\ child.state = "exited"
    /\ child.argv = << <<"L","S">>, <<"-","l","a">> >>
    /\ pc = "returned"

\* the decimal text of a natural number, as str() and an f-string give it
RECURSIVE DecimalText(_)
DecimalText(n) ==
    LET digits == <<"0","1","2","3","4","5","6","7","8","9">> IN
    IF n < 10 THEN <<digits[n + 1]>>
    ELSE DecimalText(n \div 10) \o <<digits[(n % 10) + 1]>>

\* C26: when the launched command of a system-command utterance exits with
\* a non-zero code, what handle_system_command speaks and what it displays
\* for the utterance hold the exit code or the captured stderr text (the
\* fixed words "Command failed: " around them hold neither).
C26_FailureShowsCodeOrStderr ==
    (pc = "returned" /\ intent = "system_command"
        /\ child.state = "exited" /\ child.returncode # 0)
        => /\ \E i \in 1..Len(spoken) :
                \/ Contains(DecimalText(child.returncode), spoken[i].arg)
                \/ Contains(Strip(child.stderr), spoken[i].arg)
           /\ \E i \in 1..Len(displayed) :
                \/ Contains(DecimalText(child.returncode), displayed[i].arg)
                \/ Contains(Strip(child.stderr), displayed[i].arg)

\* what follows the first occurrence of phrase in s (s holds phrase)
RECURSIVE TextAfter(_, _)
TextAfter(s, phrase) ==
    IF Len(s) < Len(phrase) THEN <<>>
    ELSE IF StartsWith(s, phrase) THEN DropN(s, Len(phrase))
    ELSE TextAfter(Tail(s), phrase)

\* C27: the topic of a Wikipedia lookup is the remainder of the command
\* body after its trigger: after the prefix "wiki " or "wikipedia ", and for
\* a body that holds "tell me about" anywhere, the trimmed text that follows
\* that phrase.
C27_TopicIsRemainder ==
    (pc = "returned" /\ intent = "wikipedia")
        => LET body == CommandBody(heard, wake_word)
               topic == IF StartsWithAny(wikipedia_prefixes, body)
                        THEN AfterPrefix(wikipedia_prefixes, body)
                        ELSE Strip(TextAfter(body, tell_me_about))
           IN  /\ topic # <<>> => spoken[1].arg = topic
               /\ topic # <<>> => displayed[1].arg = topic
               /\ topic = <<>> => spoken[1].arg = <<>>

\* C28 as stated: the first element of the argument vector of every child
\* launched by execute_command is an exact, case-sensitive member of
\* allowed_commands.
C28_ArgvHeadInAllowSet ==
    child.state # "none" => child.argv[1] \in allowed_commands

\* C28 as the code has it: the lower-case form of the first element of the
\* argument vector of every launched child is a member of allowed_commands;
\* the element itself keeps the casing of the input.
C28_ArgvHeadLowerInAllowSet ==
    child.state # "none"
        => /\ child.argv # <<>>
           /\ Lower(child.argv[1]) \in allowed_commands
           /\ child.argv[1] = Split(sanitize_input(text))[1]

\* C28 witness: execute_command("LS -la") has launched a child whose
\* program name LS is not in the allow-set, while ls is
C28_Witness ==
    /\ pc = "direct"
    /\ child.state = "exited"
    /\ child.argv[1] = <<"L","S">>
    /\ <<"L","S">> \notin allowed_commands
    /\ <<"l","s">> \in allowed_commands

\* C29: every command c of the built-in allow-set can be run by voice: once
\* process_command has handled "<wake word> run c", the utterance has been
\* classified as a system command, the validator has accepted c and the
\* launch has been attempted with the argument vector [c].
C29_AllowedRunnableByVoice ==
    \A c \in default_allowed_commands :
        (heard = default_wake_word \o <<" ">> \o system_command_prefixes[1] \o c
            /\ pc # "process")
            => /\ intent = "system_command"
               /\ exec.phase # "idle"
               /\ exec.verdict
               /\ Split(exec.validated) = <<c>>
               /\ child.state # "none" => child.argv = <<c>>

\* C30: whenever process_command has dispatched the system-command or the
\* web-search handler, the text extracted after the matched prefix is not
\* empty and is trimmed: execute_command is called with a non-empty string
\* and handle_web_search never asks "What would you like me to search for?".
C30_ExtractedTextNonEmpty ==
    pc # "process"
        => /\ intent = "system_command"
                => /\ actual_command # <<>>
                   /\ Strip(actual_command) = actual_command
                   /\ exec.phase # "idle"
                   /\ exec.raw = actual_command
           /\ intent = "web_search"
                => /\ spoken # <<>>
                   /\ \A i \in 1..Len(spoken) :
                         spoken[i].tpl # "What would you like me to search for?"
                   /\ \A i \in 1..Len(spoken) :
                         spoken[i].tpl = "I found {} search results for {}."
                             => /\ spoken[i].arg # <<>>
                                /\ Strip(spoken[i].arg) = spoken[i].arg

\* C30 witness: "jarvis look up  cats " has been searched for as "cats"
C30_Witness ==
    /\ heard = default_wake_word
                  \o <<" ","l","o","o","k"," ","u","p"," "," ","c","a","t","s"," ">>
    /\ pc = "returned"
    /\ intent = "web_search"
    /\ spoken[1].arg = <<"c","a","t","s">>

=============================================================================
